---- MODULE Spec2Model ----
(***************************************************************************)
(* Model of the App component (image-request lifecycle controller) and of  *)
(* the encoding utilities of merch-mockup-ai.                              *)
(*                                                                         *)
(* State: the seven useState cells of App, the asynchronous handler        *)
(* invocations that are suspended at an await (tasks), and two history     *)
(* variables: the handler step that produced the current state (last) and  *)
(* the state cells as they were when the latest request was issued         *)
(* (before).                                                               *)
(*                                                                         *)
(* Strings that the code parses (data URLs, base64 payloads) are sequences *)
(* of tokens, so that split(',') and startsWith are computed; other        *)
(* strings (media types, prompts, messages) are TLA+ strings.              *)
(***************************************************************************)
EXTENDS Naturals, Sequences, FiniteSets

VARIABLES logo, logoPreview, productDescription, editPrompt, generatedImage,
          status, error, tasks, last, before

vars == <<logo, logoPreview, productDescription, editPrompt, generatedImage,
          status, error, tasks, last, before>>

\* ------------------------------------------------------------------ bounds

\* Handler invocations suspended at an await at the same time, when App is
\* driven through its controls.
MaxTasks == 2

\* The same, when the handlers are called directly.
MaxCalls == 1

\* ------------------------------------------------------------------ values

\* JS null of a File or string cell.
Null == "null"

\* JS null of a cell that holds a parsed string (a data URL); also the empty
\* string: both are falsy.
NoImage == <<>>

\* The value of an index that split() did not produce.
Undefined == <<"undefined">>

\* Files the picker can hand over. The accept attribute is a hint of the
\* picker, not a filter of File.type: a gif can be chosen.
Files == {"logo.png", "photo.jpeg", "anim.gif"}

\* File.type, the declared media type.
FileType(f) ==
  CASE f = "logo.png" -> "image/png"
    [] f = "photo.jpeg" -> "image/jpeg"
    [] f = "anim.gif" -> "image/gif"

\* The base64 text of the file's bytes.
Base64(f) ==
  CASE f = "logo.png" -> "iVBORw0KGgo"
    [] f = "photo.jpeg" -> "/9j/4AAQSkZ"
    [] f = "anim.gif" -> "R0lGODlhAQA"

\* A data URL as the sequence of its tokens.
DataURL(mime, payload) == <<"data:", mime, ";base64", ",", payload>>

\* FileReader.readAsDataURL of a file that loads.
readAsDataURL(f) == DataURL(FileType(f), Base64(f))

\* Values of the product description textarea and of the edit prompt input.
Descriptions == {"", "a white t-shirt"}
EditPrompts == {"", "add a retro filter"}

\* Media types declared to getMimeType and the allow-list it keeps.
DeclaredTypes == {"image/png", "image/jpeg", "image/webp", "image/gif", "image/jpg", ""}
AllowList == {"image/png", "image/jpeg", "image/webp"}

\* Images the generation and edit capabilities can return: data URLs.
ResultPayloads == {"cmVzdWx0MQ"}
ResultImages == {DataURL(m, p) : m \in AllowList, p \in ResultPayloads}

\* Values a rejected promise can carry: an Error with a message, an Error with
\* an empty message, a value that is not an Error (a ProgressEvent, a string).
ErrorOf(msg) == [isError |-> TRUE, message |-> msg]
NotAnError == [isError |-> FALSE, message |-> ""]
NoFailure == [isError |-> FALSE, message |-> "none"]
CapabilityFailures == {ErrorOf("The model returned no image."), ErrorOf(""), NotAnError}

\* ------------------------------------------------------------------ strings

\* s.split(sep) on a token sequence: the sequence of the pieces between
\* occurrences of sep.
RECURSIVE Split(_, _)
Split(s, sep) ==
  IF \A i \in 1..Len(s) : s[i] # sep
    THEN <<s>>
    ELSE LET k == CHOOSE i \in 1..Len(s) :
                    s[i] = sep /\ \A j \in 1..(i - 1) : s[j] # sep
         IN <<SubSeq(s, 1, k - 1)>> \o Split(SubSeq(s, k + 1, Len(s)), sep)

\* s.split(',')[1]
SplitComma1(s) ==
  LET parts == Split(s, ",")
  IN IF Len(parts) >= 2 THEN parts[2] ELSE Undefined

\* s.startsWith('data:image/jpeg')
StartsWithDataImageJpeg(s) ==
  Len(s) >= 2 /\ s[1] = "data:" /\ s[2] = "image/jpeg"

\* ------------------------------------------------------------------ fileUtils

\* getMimeType with a silent default instead of null.
getMimeType_DefaultPng(fileType) ==
  CASE fileType = "image/png" -> "image/png"
    [] fileType = "image/jpeg" -> "image/jpeg"
    [] fileType = "image/webp" -> "image/webp"
    [] OTHER -> "image/png"

\* getMimeType returning whatever type was declared.
getMimeType_AnyType(fileType) == fileType

\* getMimeType(fileType): the switch with its default.
getMimeType(fileType) ==
  CASE fileType = "image/png" -> "image/png"
    [] fileType = "image/jpeg" -> "image/jpeg"
    [] fileType = "image/webp" -> "image/webp"
    [] OTHER -> Null

\* What the FileReader does with the file: fires onload with a string result,
\* fires onload with a result that is not a string, or fires onerror.
ReadOutcomes == {"load", "loadNotString", "error"}

\* fileToBase64 resolving with the whole data URL, not the part after the comma.
fileToBase64_WholeDataURL(file, outcome) ==
  CASE outcome = "load" ->
         [ok |-> TRUE, value |-> readAsDataURL(file), reason |-> NoFailure]
    [] outcome = "loadNotString" ->
         [ok |-> FALSE, value |-> Undefined,
          reason |-> ErrorOf("Failed to read file as base64 string.")]
    [] outcome = "error" ->
         [ok |-> FALSE, value |-> Undefined, reason |-> NotAnError]

\* fileToBase64(file): the settled promise, given what the reader did.
fileToBase64(file, outcome) ==
  CASE outcome = "load" ->
         [ok |-> TRUE, value |-> SplitComma1(readAsDataURL(file)), reason |-> NoFailure]
    [] outcome = "loadNotString" ->
         [ok |-> FALSE, value |-> Undefined,
          reason |-> ErrorOf("Failed to read file as base64 string.")]
    [] outcome = "error" ->
         [ok |-> FALSE, value |-> Undefined, reason |-> NotAnError]

\* ------------------------------------------------------------------ tasks

\* A handler invocation suspended at an await: the await it is suspended at
\* (pc), the file it is reading (the selected file of handleLogoChange, the
\* logo of handleGenerate's closure), the productDescription of
\* handleGenerate's closure, and the arguments of the capability call it is
\* waiting for.
Task(kind, pc, file, description, args) ==
  [kind |-> kind, pc |-> pc, file |-> file, productDescription |-> description,
   args |-> args]

\* No request is outstanding.
NoCells ==
  [logo |-> Null, productDescription |-> "", editPrompt |-> "",
   generatedImage |-> NoImage, status |-> "none"]

\* The handler step that was taken, with the image a capability returned to
\* it.
Did(op, result) == [op |-> op, result |-> result]

\* The state cells a request can touch, as they are now.
Cells ==
  [logo |-> logo, productDescription |-> productDescription,
   editPrompt |-> editPrompt, generatedImage |-> generatedImage,
   status |-> status]

Remove(s, i) == SubSeq(s, 1, i - 1) \o SubSeq(s, i + 1, Len(s))

\* The generate and edit requests that are outstanding.
Requests == SelectSeq(tasks, LAMBDA t : t.kind \in {"generate", "edit"})

\* The capability invocations that are outstanding.
Invocations == SelectSeq(tasks, LAMBDA t : t.pc \in {"generateImage", "editImage"})

\* ------------------------------------------------------------------ App state

Init ==
  /\ logo = Null
  /\ logoPreview = NoImage
  /\ productDescription = "a white t-shirt"
  /\ editPrompt = ""
  /\ generatedImage = NoImage
  /\ status = "idle"
  /\ error = Null
  /\ tasks = <<>>
  /\ last = Did("init", NoImage)
  /\ before = NoCells

isLoading == status = "generating" \/ status = "editing"

\* ------------------------------------------------------------------ handlers

\* handleLogoChange up to its await: no file (the dialog was cancelled) does
\* nothing; a file becomes the logo and its preview read starts.
handleLogoChange(file) ==
  IF file = Null
    THEN /\ last' = Did("handleLogoChange.nofile", NoImage)
         /\ UNCHANGED <<logo, logoPreview, productDescription, editPrompt,
                        generatedImage, status, error, tasks, before>>
    ELSE /\ logo' = file
         /\ tasks' = Append(tasks, Task("logo", "fileToBase64", file, "", <<>>))
         /\ last' = Did("handleLogoChange", NoImage)
         /\ UNCHANGED <<logoPreview, productDescription, editPrompt,
                        generatedImage, status, error, before>>

\* handleLogoChange after its await, without setError(null).
LogoReadSettles_KeepsError(i, outcome) ==
  LET t == tasks[i]
      r == fileToBase64(t.file, outcome)
  IN /\ t.kind = "logo" /\ t.pc = "fileToBase64"
     /\ tasks' = Remove(tasks, i)
     /\ IF r.ok
          THEN /\ logoPreview' = r.value
               /\ generatedImage' = NoImage
               /\ last' = Did("handleLogoChange.done", NoImage)
          ELSE /\ last' = Did("handleLogoChange.unhandled", NoImage)
               /\ UNCHANGED <<logoPreview, generatedImage>>
     /\ UNCHANGED <<logo, productDescription, editPrompt, status, error, before>>

\* handleLogoChange after its await. The await is in no try block: a rejected
\* read ends the handler there, with the rejection unhandled.
LogoReadSettles(i, outcome) ==
  LET t == tasks[i]
      r == fileToBase64(t.file, outcome)
  IN /\ t.kind = "logo" /\ t.pc = "fileToBase64"
     /\ tasks' = Remove(tasks, i)
     /\ IF r.ok
          THEN /\ logoPreview' = r.value
               /\ generatedImage' = NoImage
               /\ error' = Null
               /\ last' = Did("handleLogoChange.done", NoImage)
          ELSE /\ last' = Did("handleLogoChange.unhandled", NoImage)
               /\ UNCHANGED <<logoPreview, generatedImage, error>>
     /\ UNCHANGED <<logo, productDescription, editPrompt, status, before>>

\* The message the catch blocks show.
CatchMessage(e) ==
  IF e.isError THEN e.message ELSE "An unknown error occurred."

\* The catch block, clearing the generated image as well.
Catch_ClearsImage(i, e, op) ==
  /\ error' = CatchMessage(e)
  /\ status' = "error"
  /\ generatedImage' = NoImage
  /\ tasks' = Remove(tasks, i)
  /\ last' = Did(op, NoImage)
  /\ before' = NoCells
  /\ UNCHANGED <<logo, logoPreview, productDescription, editPrompt>>

\* The catch block without setStatus('error').
Catch_KeepsStatus(i, e, op) ==
  /\ error' = CatchMessage(e)
  /\ tasks' = Remove(tasks, i)
  /\ last' = Did(op, NoImage)
  /\ before' = NoCells
  /\ UNCHANGED <<logo, logoPreview, productDescription, editPrompt, generatedImage,
                 status>>

\* The catch block with setStatus('idle') in place of setStatus('error').
Catch_ResetsStatus(i, e, op) ==
  /\ error' = CatchMessage(e)
  /\ status' = "idle"
  /\ tasks' = Remove(tasks, i)
  /\ last' = Did(op, NoImage)
  /\ before' = NoCells
  /\ UNCHANGED <<logo, logoPreview, productDescription, editPrompt, generatedImage>>

\* The catch block of handleGenerate and of handleEdit, ending task i.
Catch(i, e, op) ==
  /\ error' = CatchMessage(e)
  /\ status' = "error"
  /\ tasks' = Remove(tasks, i)
  /\ last' = Did(op, NoImage)
  /\ before' = NoCells
  /\ UNCHANGED <<logo, logoPreview, productDescription, editPrompt, generatedImage>>

\* The guard of handleGenerate without the test of the description.
GenerateInvalid_LogoOnly == logo = Null

\* The guard of handleGenerate.
GenerateInvalid == logo = Null \/ productDescription = ""

\* handleGenerate up to its first await, without setError(null).
handleGenerate_KeepsError ==
  IF GenerateInvalid
    THEN /\ error' = "Please upload a logo and provide a product description."
         /\ last' = Did("handleGenerate.invalid", NoImage)
         /\ UNCHANGED <<logo, logoPreview, productDescription, editPrompt,
                        generatedImage, status, tasks, before>>
    ELSE /\ status' = "generating"
         /\ generatedImage' = NoImage
         /\ tasks' = Append(tasks, Task("generate", "fileToBase64", logo, productDescription, <<>>))
         /\ last' = Did("handleGenerate", NoImage)
         /\ before' = Cells
         /\ UNCHANGED <<logo, logoPreview, productDescription, editPrompt, error>>

\* handleGenerate up to its first await, without setGeneratedImage(null).
handleGenerate_KeepsImage ==
  IF GenerateInvalid
    THEN /\ error' = "Please upload a logo and provide a product description."
         /\ last' = Did("handleGenerate.invalid", NoImage)
         /\ UNCHANGED <<logo, logoPreview, productDescription, editPrompt,
                        generatedImage, status, tasks, before>>
    ELSE /\ status' = "generating"
         /\ error' = Null
         /\ tasks' = Append(tasks, Task("generate", "fileToBase64", logo, productDescription, <<>>))
         /\ last' = Did("handleGenerate", NoImage)
         /\ before' = Cells
         /\ UNCHANGED <<logo, logoPreview, productDescription, editPrompt, generatedImage>>

\* handleGenerate up to its first await.
handleGenerate ==
  IF GenerateInvalid
    THEN /\ error' = "Please upload a logo and provide a product description."
         /\ last' = Did("handleGenerate.invalid", NoImage)
         /\ UNCHANGED <<logo, logoPreview, productDescription, editPrompt,
                        generatedImage, status, tasks, before>>
    ELSE /\ status' = "generating"
         /\ error' = Null
         /\ generatedImage' = NoImage
         /\ tasks' = Append(tasks, Task("generate", "fileToBase64", logo, productDescription, <<>>))
         /\ last' = Did("handleGenerate", NoImage)
         /\ before' = Cells
         /\ UNCHANGED <<logo, logoPreview, productDescription, editPrompt>>

\* The arguments handleGenerate passes to generateImage.
GenerateArgs(t, logoBase64, mimeType) ==
  <<logoBase64, mimeType, t.productDescription>>

\* handleGenerate from the settled read to the call of generateImage.
GenerateReadSettles(i, outcome) ==
  LET t == tasks[i]
      r == fileToBase64(t.file, outcome)
      mimeType == getMimeType(FileType(t.file))
  IN /\ t.kind = "generate" /\ t.pc = "fileToBase64"
     /\ IF ~r.ok
          THEN Catch(i, r.reason, "handleGenerate.catch")
          ELSE IF mimeType = Null
            THEN Catch(i, ErrorOf("Unsupported file type."), "handleGenerate.catch")
            ELSE /\ tasks' = [tasks EXCEPT ![i].pc = "generateImage",
                                           ![i].args = GenerateArgs(t, r.value, mimeType)]
                 /\ last' = Did("generateImage", NoImage)
                 /\ UNCHANGED <<logo, logoPreview, productDescription, editPrompt,
                                generatedImage, status, error, before>>

\* handleGenerate after generateImage returned result.
GenerateImageResolves(i, result) ==
  /\ tasks[i].kind = "generate" /\ tasks[i].pc = "generateImage"
  /\ generatedImage' = result
  /\ status' = "success"
  /\ tasks' = Remove(tasks, i)
  /\ last' = Did("handleGenerate.done", result)
  /\ before' = NoCells
  /\ UNCHANGED <<logo, logoPreview, productDescription, editPrompt, error>>

\* handleGenerate after generateImage threw e.
GenerateImageRejects(i, e) ==
  /\ tasks[i].kind = "generate" /\ tasks[i].pc = "generateImage"
  /\ Catch(i, e, "handleGenerate.catch")

\* The guard of handleEdit without the test of the image.
EditInvalid_PromptOnly == editPrompt = ""

\* The guard of handleEdit.
EditInvalid == generatedImage = NoImage \/ editPrompt = ""

\* The media type handleEdit declares for the current image.
EditMimeType(image) ==
  IF StartsWithDataImageJpeg(image) THEN "image/jpeg" ELSE "image/png"

\* The arguments handleEdit passes to editImage.
EditArgs == <<SplitComma1(generatedImage), EditMimeType(generatedImage), editPrompt>>

\* handleEdit up to its await: the call of editImage is made in the same turn.
handleEdit ==
  IF EditInvalid
    THEN /\ error' = "Please generate an image and provide an edit prompt."
         /\ last' = Did("handleEdit.invalid", NoImage)
         /\ UNCHANGED <<logo, logoPreview, productDescription, editPrompt,
                        generatedImage, status, tasks, before>>
    ELSE /\ status' = "editing"
         /\ error' = Null
         /\ tasks' = Append(tasks, Task("edit", "editImage", Null, "", EditArgs))
         /\ last' = Did("editImage", NoImage)
         /\ before' = Cells
         /\ UNCHANGED <<logo, logoPreview, productDescription, editPrompt,
                        generatedImage>>

\* handleEdit after editImage returned result, without setEditPrompt('').
EditImageResolves_KeepsPrompt(i, result) ==
  /\ tasks[i].kind = "edit" /\ tasks[i].pc = "editImage"
  /\ generatedImage' = result
  /\ status' = "success"
  /\ tasks' = Remove(tasks, i)
  /\ last' = Did("handleEdit.done", result)
  /\ before' = NoCells
  /\ UNCHANGED <<logo, logoPreview, productDescription, editPrompt, error>>

\* handleEdit after editImage returned result, without setGeneratedImage(result).
EditImageResolves_KeepsImage(i, result) ==
  /\ tasks[i].kind = "edit" /\ tasks[i].pc = "editImage"
  /\ editPrompt' = ""
  /\ status' = "success"
  /\ tasks' = Remove(tasks, i)
  /\ last' = Did("handleEdit.done", result)
  /\ before' = NoCells
  /\ UNCHANGED <<logo, logoPreview, productDescription, generatedImage, error>>

\* handleEdit after editImage returned result.
EditImageResolves(i, result) ==
  /\ tasks[i].kind = "edit" /\ tasks[i].pc = "editImage"
  /\ generatedImage' = result
  /\ editPrompt' = ""
  /\ status' = "success"
  /\ tasks' = Remove(tasks, i)
  /\ last' = Did("handleEdit.done", result)
  /\ before' = NoCells
  /\ UNCHANGED <<logo, logoPreview, productDescription, error>>

\* handleEdit after editImage threw e.
EditImageRejects(i, e) ==
  /\ tasks[i].kind = "edit" /\ tasks[i].pc = "editImage"
  /\ Catch(i, e, "handleEdit.catch")

\* onChange of the product description textarea.
setProductDescription(d) ==
  /\ productDescription' = d
  /\ last' = Did("setProductDescription", NoImage)
  /\ UNCHANGED <<logo, logoPreview, editPrompt, generatedImage, status, error, tasks,
                 before>>

\* onChange of the edit prompt input.
setEditPrompt(p) ==
  /\ editPrompt' = p
  /\ last' = Did("setEditPrompt", NoImage)
  /\ UNCHANGED <<logo, logoPreview, productDescription, generatedImage, status,
                 error, tasks, before>>

\* ------------------------------------------------------------------ rendering

\* disabled of the Generate button without isLoading.
GenerateDisabled_NotWhileLoading == logo = Null \/ productDescription = ""

\* disabled of the Generate button.
GenerateDisabled == logo = Null \/ productDescription = "" \/ isLoading

\* The output panel shows the image with the edit prompt and the Apply button.
EditPanelRendered == ~isLoading /\ generatedImage # NoImage

\* disabled of the Apply button.
ApplyDisabled == editPrompt = "" \/ isLoading

\* disabled of the textarea and of the edit prompt input.
InputDisabled == isLoading

\* ------------------------------------------------------------------ steps

\* Promises settling: the reads and the capability calls respond or fail.
LogoRead == \E i \in DOMAIN tasks : \E o \in ReadOutcomes : LogoReadSettles(i, o)
GenerateRead == \E i \in DOMAIN tasks : \E o \in ReadOutcomes : GenerateReadSettles(i, o)
GenerateReturns ==
  \E i \in DOMAIN tasks :
    \/ \E result \in ResultImages : GenerateImageResolves(i, result)
    \/ \E e \in CapabilityFailures : GenerateImageRejects(i, e)
EditReturns ==
  \E i \in DOMAIN tasks :
    \/ \E result \in ResultImages : EditImageResolves(i, result)
    \/ \E e \in CapabilityFailures : EditImageRejects(i, e)

\* The user acting on what App renders.
ChangeLogo ==
  Len(tasks) < MaxTasks /\ \E file \in Files \cup {Null} : handleLogoChange(file)
ClickGenerate == Len(tasks) < MaxTasks /\ ~GenerateDisabled /\ handleGenerate
ClickApply ==
  Len(tasks) < MaxTasks /\ EditPanelRendered /\ ~ApplyDisabled /\ handleEdit
TypeDescription == ~InputDisabled /\ \E d \in Descriptions : setProductDescription(d)
TypeEditPrompt ==
  EditPanelRendered /\ ~InputDisabled /\ \E p \in EditPrompts : setEditPrompt(p)

Next ==
  \/ ChangeLogo
  \/ ClickGenerate
  \/ ClickApply
  \/ TypeDescription
  \/ TypeEditPrompt
  \/ LogoRead
  \/ GenerateRead
  \/ GenerateReturns
  \/ EditReturns

\* The program: App driven through the controls it renders.
Spec == Init /\ [][Next]_vars

\* The program, with every started read and capability call settling.
FairSpec ==
  /\ Spec
  /\ WF_vars(LogoRead)
  /\ WF_vars(GenerateRead)
  /\ WF_vars(GenerateReturns)
  /\ WF_vars(EditReturns)

\* The handlers called directly, whatever the controls would allow.
CallLogoChange ==
  Len(tasks) < MaxCalls /\ \E file \in Files \cup {Null} : handleLogoChange(file)
CallGenerate == Len(tasks) < MaxCalls /\ handleGenerate
CallEdit == Len(tasks) < MaxCalls /\ handleEdit
CallSetDescription == \E d \in Descriptions : setProductDescription(d)
CallSetEditPrompt == \E p \in EditPrompts : setEditPrompt(p)

NextHandlers ==
  \/ CallLogoChange
  \/ CallGenerate
  \/ CallEdit
  \/ CallSetDescription
  \/ CallSetEditPrompt
  \/ LogoRead
  \/ GenerateRead
  \/ GenerateReturns
  \/ EditReturns

SpecHandlers == Init /\ [][NextHandlers]_vars

\* ------------------------------------------------------------------ claims

\* Task i is a generate or edit request and this step ends it.
Ends(i) ==
  /\ tasks[i].kind \in {"generate", "edit"}
  /\ tasks' = Remove(tasks, i)

\* The media types the encoding utility lets through.
Allowed == {"image/png", "image/jpeg", "image/webp"}

\* C1. Single-flight: at most one generate or edit request, and at most one
\* capability invocation, is outstanding in any state; the status is
\* generating or editing exactly while one is; and in those states neither the
\* Generate nor the Apply control can start another.
C1_SingleFlight ==
  /\ Len(Requests) <= 1
  /\ Len(Invocations) <= 1
  /\ isLoading <=> Len(Requests) = 1
  /\ isLoading => ~ENABLED ClickGenerate /\ ~ENABLED ClickApply

\* A capability invocation is outstanding and the user has just acted.
C1_Witness ==
  /\ isLoading
  /\ Len(Invocations) = 1
  /\ last.op = "handleLogoChange"

\* C2. A call of handleGenerate made while the logo is absent or the product
\* description is empty starts no request and no invocation, sets the error
\* message and leaves the status as it was.
C2_GeneratePrecondition ==
  [][(handleGenerate /\ (logo = Null \/ productDescription = ""))
       => /\ tasks' = tasks
          /\ error' \notin {Null, ""}
          /\ status' = status]_vars

\* handleGenerate was called with a logo and an empty description.
C2_Witness ==
  /\ last.op = "handleGenerate.invalid"
  /\ logo # Null
  /\ productDescription = ""
  /\ error \notin {Null, ""}

\* C3. A call of handleEdit made while the generated image is absent or the
\* edit prompt is empty starts no request and no invocation, sets the error
\* message and leaves the status and the generated image as they were.
C3_EditPrecondition ==
  [][(handleEdit /\ (generatedImage = NoImage \/ editPrompt = ""))
       => /\ tasks' = tasks
          /\ error' \notin {Null, ""}
          /\ status' = status
          /\ generatedImage' = generatedImage]_vars

\* handleEdit was called with an edit prompt and no generated image.
C3_Witness ==
  /\ last.op = "handleEdit.invalid"
  /\ generatedImage = NoImage
  /\ editPrompt # ""
  /\ error \notin {Null, ""}

\* C4, as stated. When a generate request for a file whose declared type is
\* outside the allow-list has been handled, the status is what it was before
\* the request and the error message is set.
C4_StatusUnchanged ==
  [][\A i \in DOMAIN tasks :
       (Ends(i) /\ tasks[i].kind = "generate" /\ FileType(tasks[i].file) \notin Allowed)
         => /\ status' = before.status
            /\ error' \notin {Null, ""}]_vars

\* C4, amended. A generate request for a file whose declared type is outside
\* the allow-list never reaches the call of generateImage, and when it has
\* been handled the status is error and the error message is set.
C4_StatusError ==
  [][\A i \in DOMAIN tasks :
       (tasks[i].kind = "generate" /\ FileType(tasks[i].file) \notin Allowed)
         => /\ tasks[i].pc = "fileToBase64"
            /\ Ends(i) => /\ status' = "error"
                          /\ error' \notin {Null, ""}]_vars

\* A generate request for a gif has been handled.
C4_Witness ==
  /\ last.op = "handleGenerate.catch"
  /\ error = "Unsupported file type."
  /\ status = "error"

\* C5. getMimeType returns its argument for the three allow-listed types and
\* null for every other declared type; every outstanding invocation of
\* generateImage carries an allow-listed media type, that of its file; and no
\* request for a file of another type is waiting for generateImage.
C5_AllowList ==
  /\ \A t \in DeclaredTypes :
       getMimeType(t) = IF t \in Allowed THEN t ELSE Null
  /\ \A i \in DOMAIN tasks :
       tasks[i].pc = "generateImage"
         => /\ tasks[i].args[2] \in Allowed
            /\ tasks[i].args[2] = FileType(tasks[i].file)
  /\ \A i \in DOMAIN tasks :
       (tasks[i].kind = "generate" /\ FileType(tasks[i].file) \notin Allowed)
         => tasks[i].pc # "generateImage"

\* generateImage has been invoked for a jpeg.
C5_Witness ==
  /\ last.op = "generateImage"
  /\ \E i \in DOMAIN tasks :
       tasks[i].pc = "generateImage" /\ tasks[i].args[2] = "image/jpeg"

\* This step is the catch block of a request.
Fails == last'.op \in {"handleGenerate.catch", "handleEdit.catch"}

\* C6, as stated, for the requests during which no other logo was selected.
\* When a generate or edit request fails, the logo, the product description,
\* the edit prompt and the generated image (if there was one before the
\* request) are what they were immediately before the request.
C6_StateIntact ==
  [][\A i \in DOMAIN tasks :
       (Ends(i) /\ Fails /\ logo = before.logo)
         => /\ logo' = before.logo
            /\ productDescription' = before.productDescription
            /\ editPrompt' = before.editPrompt
            /\ before.generatedImage # NoImage
                 => generatedImage' = before.generatedImage]_vars

\* C6, amended. When a generate or edit request fails, the product
\* description and the edit prompt are what they were immediately before the
\* request; the failure changes neither the logo nor the generated image; the
\* generated image is absent after a failed generate, which cleared it when it
\* was issued, and after a failed edit it is the image the edit was issued
\* for, or absent when a logo selection completed meanwhile.
C6_InputsIntact ==
  [][\A i \in DOMAIN tasks :
       (Ends(i) /\ Fails)
         => /\ productDescription' = before.productDescription
            /\ editPrompt' = before.editPrompt
            /\ logo' = logo
            /\ generatedImage' = generatedImage
            /\ tasks[i].kind = "generate" => generatedImage' = NoImage
            /\ tasks[i].kind = "edit"
                 => generatedImage' \in {before.generatedImage, NoImage}]_vars

\* An edit failed and left the image and the edit prompt in place.
C6_Witness ==
  /\ last.op = "handleEdit.catch"
  /\ generatedImage # NoImage
  /\ editPrompt # ""
  /\ status = "error"

\* The media type and the payload a data URL declares.
MediaTypeOf(url) == url[2]
PayloadOf(url) == <<url[5]>>

\* C7. Every outstanding invocation of editImage carries the payload and the
\* media type of the image the edit was issued for, and the edit prompt.
C7_EditArguments ==
  \A i \in DOMAIN tasks :
    tasks[i].kind = "edit"
      => tasks[i].args = <<PayloadOf(before.generatedImage),
                           MediaTypeOf(before.generatedImage),
                           before.editPrompt>>

\* C8. A request that makes the status generating or editing ends with the
\* status success or error; while one is outstanding no other request
\* starts; every ending request leaves the status success or error.
C8_RunsToCompletion ==
  /\ isLoading ~> status \in {"success", "error"}
  /\ [][isLoading => Len(Requests') <= Len(Requests)]_vars
  /\ [][\A i \in DOMAIN tasks :
          Ends(i) => /\ status' \in {"success", "error"}
                     /\ last'.op # "handleLogoChange.unhandled"]_vars

\* A generate request failed in generateImage and was caught.
C8_Witness ==
  /\ last.op = "handleGenerate.catch"
  /\ status = "error"
  /\ error = "The model returned no image."
  /\ tasks = <<>>

\* C9. An edit request that succeeds leaves the edit prompt empty, the
\* generated image equal to the image editImage returned and the status
\* success; one that fails leaves the edit prompt equal to the instruction that
\* was submitted and the status error.
C9_EditPromptClearing ==
  [][\A i \in DOMAIN tasks :
       (Ends(i) /\ tasks[i].kind = "edit")
         => \/ /\ last'.op = "handleEdit.done"
               /\ editPrompt' = ""
               /\ generatedImage' = last'.result
               /\ last'.result \in ResultImages
               /\ status' = "success"
            \/ /\ last'.op = "handleEdit.catch"
               /\ editPrompt' = tasks[i].args[3]
               /\ editPrompt' # ""
               /\ status' = "error"]_vars

\* An edit succeeded.
C9_Witness ==
  /\ last.op = "handleEdit.done"
  /\ editPrompt = ""
  /\ generatedImage = last.result
  /\ status = "success"

\* The messages of a failed read.
ReadFailureMessages ==
  {"Failed to read file as base64 string.", "An unknown error occurred."}

C11_ErrorMessageShown ==
  [][\A i \in DOMAIN tasks :
       (Ends(i) /\ Fails)
         => /\ status' = "error"
            /\ error' \notin {Null, ""}]_vars

\* C12. The step that starts a generate or edit request leaves the error
\* message absent, whatever it was, and the error message is absent in every
\* state where the status is generating or editing.
C12_ErrorCleared ==
  /\ [][(~isLoading /\ isLoading') => error' = Null]_vars
  /\ [](isLoading => error = Null)

\* A request was issued after a failure and is outstanding.
C12_Witness ==
  /\ isLoading
  /\ before.status = "error"
  /\ last.op \in {"handleGenerate", "editImage"}
  /\ error = Null

\* This step ends a request with the image its capability returned.
Succeeds ==
  /\ \E i \in DOMAIN tasks : Ends(i)
  /\ last'.op \in {"handleGenerate.done", "handleEdit.done"}

\* C13. The generated image is absent at the start; every request that
\* succeeds makes it the image that was returned; and any other step that
\* changes it makes it absent. So in every state it is absent or the result of
\* the latest request that succeeded.
C13_OnlyLatestResult ==
  /\ generatedImage = NoImage
  /\ [][Succeeds => /\ generatedImage' = last'.result
                    /\ last'.result \in ResultImages]_vars
  /\ [][generatedImage' # generatedImage
          => generatedImage' = NoImage \/ Succeeds]_vars

\* The image of a request that succeeded is still there steps later.
C13_Witness ==
  /\ last.op = "setEditPrompt"
  /\ generatedImage \in ResultImages
  /\ status = "success"

\* C14. Selecting a file, whatever the status, makes it the logo and starts
\* its preview read; the completed read clears the generated image and the
\* error message; neither step changes the status, the product description or
\* the edit prompt, nor starts or ends a capability invocation.
C14_LogoSelection ==
  /\ [][last'.op = "handleLogoChange"
          => /\ Len(tasks') = Len(tasks) + 1
             /\ tasks'[Len(tasks')].kind = "logo"
             /\ tasks'[Len(tasks')].file = logo'
             /\ logo' \in Files
             /\ status' = status
             /\ productDescription' = productDescription
             /\ editPrompt' = editPrompt
             /\ Requests' = Requests]_vars
  /\ [][last'.op = "handleLogoChange.done"
          => /\ \E i \in DOMAIN tasks :
                  tasks[i].kind = "logo" /\ tasks' = Remove(tasks, i)
             /\ generatedImage' = NoImage
             /\ error' = Null
             /\ logo' = logo
             /\ status' = status
             /\ productDescription' = productDescription
             /\ editPrompt' = editPrompt
             /\ Requests' = Requests]_vars

\* The preview read of a logo selected while an edit is outstanding completed
\* and cleared the image that is being edited.
C14_Witness ==
  /\ last.op = "handleLogoChange.done"
  /\ status = "editing"
  /\ Len(Requests) = 1
  /\ generatedImage = NoImage

\* C15, first part. A generate request that succeeds was issued for the logo
\* that is selected when it succeeds.
C15_ResultOfCurrentLogo ==
  [][\A i \in DOMAIN tasks :
       (Ends(i) /\ tasks[i].kind = "generate" /\ last'.op = "handleGenerate.done")
         => tasks[i].file = logo']_vars

\* C15, second part. Right after a generate request succeeded, the completed
\* preview read of a file that is not the logo, hence of a selection earlier
\* than that of the logo, leaves the generated image in place.
C15_NoLateClearing ==
  [][\A i \in DOMAIN tasks :
       (/\ last.op = "handleGenerate.done"
        /\ tasks[i].kind = "logo"
        /\ tasks[i].file # logo
        /\ tasks' = Remove(tasks, i)
        /\ last'.op = "handleLogoChange.done")
         => generatedImage' = generatedImage]_vars

\* C15. The generated image derives from the selected logo under every
\* interleaving of logo selections with requests: both parts.
C15_ImageOfCurrentLogo == C15_ResultOfCurrentLogo /\ C15_NoLateClearing

\* C16 as stated. Status success implies a generated image is present, and
\* status generating implies none is.
C16_SuccessHasImage ==
  /\ status = "success" => generatedImage # NoImage
  /\ status = "generating" => generatedImage = NoImage

\* C16, amended. While the status is generating no generated image is present;
\* a request that succeeds leaves status success with an image present; and
\* status success without an image arises only when the preview read of a
\* selected logo completes (lines 38-40 clear the image and keep the status).
C16_SuccessUntilLogoChange ==
  /\ [](status = "generating" => generatedImage = NoImage)
  /\ [][Succeeds => /\ status' = "success"
                    /\ generatedImage' # NoImage]_vars
  /\ [][(status' = "success" /\ generatedImage' = NoImage)
          => \/ last'.op = "handleLogoChange.done"
             \/ (status = "success" /\ generatedImage = NoImage)]_vars

\* The preview read of a logo selected after a success completed: the status
\* is still success and the image is gone.
C16_Witness ==
  /\ status = "success"
  /\ generatedImage = NoImage
  /\ last.op = "handleLogoChange.done"
  /\ tasks = <<>>

\* C17. The status is idle only before the first request that passes its
\* preconditions: while it is idle no request has been started and no
\* generated image is present, a status other than idle never becomes idle,
\* and no step takes the status from idle to editing.
C17_IdleOnlyAtStart ==
  /\ [](status = "idle" => (generatedImage = NoImage /\ Requests = <<>>))
  /\ [][status # "idle" => status' # "idle"]_vars
  /\ [][status = "idle" => status' # "editing"]_vars
  /\ [][(status = "idle" /\ Len(Requests') > Len(Requests)) => status' = "generating"]_vars

\* handleEdit was called with an edit prompt while the status is idle: it
\* found no generated image and made no transition.
C17_Witness ==
  /\ last.op = "handleEdit.invalid"
  /\ status = "idle"
  /\ logo # Null
  /\ editPrompt # ""

====
